---------------------------- MODULE Spec2Model ----------------------------
(***************************************************************************)
(* Model of UByteStreamPacketParser (ArduinoCommunication plugin): the     *)
(* stateful framed byte-stream parser.                                     *)
(*                                                                         *)
(*   frame: [0xAA][VER][SRC][TYPE][SEQ_L][SEQ_H][LEN][PAYLOAD..][CRC][0x55]*)
(*                                                                         *)
(* Buffer indices are 0-based as in the source; At(B, i) reads Buffer[i].  *)
(* The delegates (OnPacketDecoded, OnBytesDropped, ...) and the debug log  *)
(* do not change the parser's state and are left out.                      *)
(***************************************************************************)
EXTENDS Integers, Sequences, FiniteSets, TLC

VARIABLES
    Buffer,               \* TArray<uint8> Buffer
    MaxBufferBytes,       \* configuration properties
    TrimToBytes,
    MaxPacketsPerCall,
    TotalBytesIn,         \* cumulative statistics
    TotalPacketsDecoded,
    TotalBytesDropped,
    TotalBadEndFrames,
    TotalCrcMismatches,
    OutPackets,           \* out-parameters and return value of the last parse
    OutBytesDropped,
    OutBadEndFrames,
    OutCrcMismatches,
    Result,
    pc,                   \* "idle", or "loop" while ParsePackets runs step by step
    ReadIndex,            \* locals of ParsePackets (step-by-step specification)
    PacketsParsed,
    scn,                  \* what the byte source is going to deliver (fixed)
    feed,                 \* bytes the byte source has not delivered yet
    h,                    \* record of the last call
    prev                  \* the call before it, in short

config == <<MaxBufferBytes, TrimToBytes, MaxPacketsPerCall>>
stats  == <<TotalBytesIn, TotalPacketsDecoded, TotalBytesDropped,
            TotalBadEndFrames, TotalCrcMismatches>>
outs   == <<OutPackets, OutBytesDropped, OutBadEndFrames, OutCrcMismatches, Result>>
locals == <<pc, ReadIndex, PacketsParsed>>
vars   == <<Buffer, config, stats, outs, locals, scn, feed, h, prev>>

-----------------------------------------------------------------------------
(* Protocol constants (ByteStreamPacketParser.h)                            *)

StartByte == 170
EndByte == 85
HeaderSize == 6
MinFrameSize == 9
MinBytesToReadHeader == 7
MaxPayloadLen == 32
INDEX_NONE == -1

DefaultMaxBufferBytes == 4096
DefaultTrimToBytes == 64
DefaultMaxPacketsPerCall == 200

-----------------------------------------------------------------------------
(* uint8 / int32 arithmetic                                                 *)

\* operator ^ on two bytes
BitXor(a, b) ==
    LET Bits[p \in Nat \X Nat] ==
          IF p[1] = 0 THEN p[2]
          ELSE IF p[2] = 0 THEN p[1]
          ELSE 2 * Bits[<<p[1] \div 2, p[2] \div 2>>] + (((p[1] % 2) + (p[2] % 2)) % 2)
    IN Bits[<<a, b>>]

\* operator | on two unsigned values
BitOr(a, b) ==
    LET Bits[p \in Nat \X Nat] ==
          IF p[1] = 0 THEN p[2]
          ELSE IF p[2] = 0 THEN p[1]
          ELSE 2 * Bits[<<p[1] \div 2, p[2] \div 2>>]
               + (IF (p[1] % 2) = 1 \/ (p[2] % 2) = 1 THEN 1 ELSE 0)
    IN Bits[<<a, b>>]

ShiftLeft8(a) == a * 256

Max2(a, b) == IF a >= b THEN a ELSE b

-----------------------------------------------------------------------------
(* Sequences as 0-based arrays                                              *)

Num(B) == Len(B)
\* B[i]; an index outside the array yields no byte
At(B, i) == IF 0 <= i /\ i < Num(B) THEN B[i + 1] ELSE INDEX_NONE
Take(B, n) == SubSeq(B, 1, n)
Drop(B, n) == SubSeq(B, n + 1, Len(B))

RECURSIVE Concat(_)
Concat(ss) == IF ss = << >> THEN << >> ELSE Head(ss) \o Concat(Tail(ss))

-----------------------------------------------------------------------------
(* Private helpers of the parser                                            *)

\* FindStartByte: index of the first StartByte at or after StartIndex.
RECURSIVE FindStartByte(_, _)
FindStartByte(B, StartIndex) ==
    IF StartIndex >= Num(B) THEN INDEX_NONE
    ELSE IF At(B, StartIndex) = StartByte THEN StartIndex
    ELSE FindStartByte(B, StartIndex + 1)

\* ComputeCrc: XOR of Buffer[Offset+1 .. Offset+6+PayloadLen].
RECURSIVE XorRange(_, _, _)
XorRange(B, i, CrcEndIndex) ==
    IF i > CrcEndIndex THEN 0
    ELSE BitXor(At(B, i), XorRange(B, i + 1, CrcEndIndex))

ComputeCrc_FromStart(B, Offset, PayloadLen) ==
    XorRange(B, Offset, Offset + 6 + PayloadLen)

ComputeCrc(B, Offset, PayloadLen) ==
    XorRange(B, Offset + 1, Offset + 6 + PayloadLen)

\* DecodePacketAt: the FBenchPacket read from the frame at Offset.
DecodeSeq_HiFirst(SeqLo, SeqHi) == BitOr(SeqHi, ShiftLeft8(SeqLo))

DecodeSeq(SeqLo, SeqHi) == BitOr(SeqLo, ShiftLeft8(SeqHi))

DecodePacketAt(B, Offset, PayloadLen) ==
    [Ver     |-> At(B, Offset + 1),
     Src     |-> At(B, Offset + 2),
     Type    |-> At(B, Offset + 3),
     Seq     |-> DecodeSeq(At(B, Offset + 4), At(B, Offset + 5)),
     Len     |-> At(B, Offset + 6),
     Payload |-> IF PayloadLen > 0
                 THEN SubSeq(B, Offset + 7 + 1, Offset + 7 + PayloadLen)
                 ELSE << >>]

\* EnforceBufferLimits: the buffer kept and the number of bytes trimmed.
EnforceBufferLimits_KeepMax(B) ==
    IF Num(B) <= MaxBufferBytes THEN [Buffer |-> B, BytesToTrim |-> 0]
    ELSE [Buffer |-> Drop(B, Num(B) - Max2(MaxBufferBytes, 0)),
          BytesToTrim |-> Num(B) - Max2(MaxBufferBytes, 0)]

EnforceBufferLimits_KeepOldest(B) ==
    IF Num(B) <= MaxBufferBytes THEN [Buffer |-> B, BytesToTrim |-> 0]
    ELSE IF TrimToBytes > 0 /\ TrimToBytes < Num(B)
         THEN [Buffer |-> Take(B, TrimToBytes),
               BytesToTrim |-> Num(B) - TrimToBytes]
         ELSE [Buffer |-> << >>, BytesToTrim |-> Num(B)]

EnforceBufferLimits(B) ==
    IF Num(B) <= MaxBufferBytes THEN [Buffer |-> B, BytesToTrim |-> 0]
    ELSE IF TrimToBytes > 0 /\ TrimToBytes < Num(B)
         THEN [Buffer |-> Drop(B, Num(B) - TrimToBytes),
               BytesToTrim |-> Num(B) - TrimToBytes]
         ELSE [Buffer |-> << >>, BytesToTrim |-> Num(B)]

-----------------------------------------------------------------------------
(* The parser object as a record, so that one call can be composed with     *)
(* the next (IngestAndParse = AppendBytes ; ParsePackets).                   *)
(* ReadIndex, PacketsParsed and stop (the loop was left by break) are the    *)
(* locals of ParsePackets; events lists what each loop iteration did and     *)
(* evicted is the value EnforceBufferLimits returned to AppendBytes.         *)

Self ==
    [Buffer              |-> Buffer,
     TotalBytesIn        |-> TotalBytesIn,
     TotalPacketsDecoded |-> TotalPacketsDecoded,
     TotalBytesDropped   |-> TotalBytesDropped,
     TotalBadEndFrames   |-> TotalBadEndFrames,
     TotalCrcMismatches  |-> TotalCrcMismatches,
     OutPackets          |-> OutPackets,
     OutBytesDropped     |-> OutBytesDropped,
     OutBadEndFrames     |-> OutBadEndFrames,
     OutCrcMismatches    |-> OutCrcMismatches,
     Result              |-> Result,
     ReadIndex           |-> ReadIndex,
     PacketsParsed       |-> PacketsParsed,
     stop                |-> FALSE,
     events              |-> << >>,
     evicted             |-> 0]

\* the parser right after construction
NoSelf ==
    [Buffer |-> << >>, TotalBytesIn |-> 0, TotalPacketsDecoded |-> 0,
     TotalBytesDropped |-> 0, TotalBadEndFrames |-> 0, TotalCrcMismatches |-> 0,
     OutPackets |-> << >>, OutBytesDropped |-> 0, OutBadEndFrames |-> 0,
     OutCrcMismatches |-> 0, Result |-> 0, ReadIndex |-> 0, PacketsParsed |-> 0,
     stop |-> FALSE, events |-> << >>, evicted |-> 0]

Event(kind, at, len) == [kind |-> kind, at |-> at, len |-> len]

\* AppendBytes (lines 11-21)
AppendBytesF(S, InBytes) ==
    IF Num(InBytes) = 0 THEN S
    ELSE LET E == EnforceBufferLimits(S.Buffer \o InBytes)
         IN [S EXCEPT !.TotalBytesIn = @ + Num(InBytes),
                      !.Buffer = E.Buffer,
                      !.TotalBytesDropped = @ + E.BytesToTrim,
                      !.evicted = E.BytesToTrim]

\* while (PacketsParsed < MaxPacketsPerCall)   (line 34)
LoopCondition_OffByOne(S) == S.PacketsParsed <= MaxPacketsPerCall

LoopCondition(S) == S.PacketsParsed < MaxPacketsPerCall

\* ReadIndex++ of the three rejections (lines 92, 123, 146)
Resync_Stay(R) == R

Resync_SkipFrame(R) == R + MinFrameSize

Resync(R) == R + 1

\* FrameSize (line 97) and EndByteIndex (line 107)
FrameSize_NoEnd(PayloadLen) == MinFrameSize - 1 + PayloadLen

FrameSize(PayloadLen) == MinFrameSize + PayloadLen

EndByteIndex_AtCrc(R, PayloadLen) == R + 7 + PayloadLen

EndByteIndex(R, PayloadLen) == R + 8 + PayloadLen

\* lines 39-55: no start byte, the rest of the buffer is junk
NoStartByte_Assign(S) ==
    LET BytesToDrop == Num(S.Buffer) - S.ReadIndex
    IN [S EXCEPT !.OutBytesDropped = IF BytesToDrop > 0 THEN @ + BytesToDrop ELSE @,
                 !.TotalBytesDropped = IF BytesToDrop > 0 THEN BytesToDrop ELSE @,
                 !.Buffer = << >>,
                 !.stop = TRUE,
                 !.events = Append(@, Event("none", S.ReadIndex, 0))]

NoStartByte(S) ==
    LET BytesToDrop == Num(S.Buffer) - S.ReadIndex
    IN [S EXCEPT !.OutBytesDropped = IF BytesToDrop > 0 THEN @ + BytesToDrop ELSE @,
                 !.TotalBytesDropped = IF BytesToDrop > 0 THEN @ + BytesToDrop ELSE @,
                 !.Buffer = << >>,
                 !.stop = TRUE,
                 !.events = Append(@, Event("none", S.ReadIndex, 0))]

\* lines 57-69: the bytes before the start marker are junk
DiscardJunk(S, StartIndex) ==
    LET JunkBytes == StartIndex - S.ReadIndex
    IN [S EXCEPT !.OutBytesDropped = IF StartIndex > S.ReadIndex THEN @ + JunkBytes ELSE @,
                 !.TotalBytesDropped = IF StartIndex > S.ReadIndex THEN @ + JunkBytes ELSE @,
                 !.ReadIndex = StartIndex]

\* lines 73-77 and 100-104: wait for more data
WaitForData_DropStart(S, kind, PayloadLen) ==
    [S EXCEPT !.stop = TRUE,
              !.ReadIndex = @ + 1,
              !.events = Append(@, Event(kind, S.ReadIndex, PayloadLen))]

WaitForData(S, kind, PayloadLen) ==
    [S EXCEPT !.stop = TRUE,
              !.events = Append(@, Event(kind, S.ReadIndex, PayloadLen))]

RejectLength_Wait(S, PayloadLen) ==
    [S EXCEPT !.stop = TRUE,
              !.events = Append(@, Event("len", S.ReadIndex, PayloadLen))]

\* lines 83-94: LEN > MaxPayloadLen
RejectLength(S, PayloadLen) ==
    [S EXCEPT !.OutBytesDropped = @ + 1,
              !.TotalBytesDropped = @ + 1,
              !.ReadIndex = Resync(@),
              !.events = Append(@, Event("len", S.ReadIndex, PayloadLen))]

\* lines 108-125: bad end byte
RejectEnd_AlsoCrc(S, PayloadLen) ==
    LET BadCrc == IF ComputeCrc(S.Buffer, S.ReadIndex, PayloadLen)
                       # At(S.Buffer, S.ReadIndex + 7 + PayloadLen) THEN 1 ELSE 0
    IN [S EXCEPT !.OutBadEndFrames = @ + 1,
                 !.TotalBadEndFrames = @ + 1,
                 !.OutCrcMismatches = @ + BadCrc,
                 !.TotalCrcMismatches = @ + BadCrc,
                 !.OutBytesDropped = @ + 1,
                 !.TotalBytesDropped = @ + 1,
                 !.ReadIndex = Resync(@),
                 !.events = Append(@, Event("end", S.ReadIndex, PayloadLen))]

RejectEnd(S, PayloadLen) ==
    [S EXCEPT !.OutBadEndFrames = @ + 1,
              !.TotalBadEndFrames = @ + 1,
              !.OutBytesDropped = @ + 1,
              !.TotalBytesDropped = @ + 1,
              !.ReadIndex = Resync(@),
              !.events = Append(@, Event("end", S.ReadIndex, PayloadLen))]

\* lines 131-148: CRC mismatch
RejectCrc_Accept(S, PayloadLen) ==
    [S EXCEPT !.OutPackets = Append(@, DecodePacketAt(S.Buffer, S.ReadIndex, PayloadLen)),
              !.PacketsParsed = @ + 1,
              !.TotalPacketsDecoded = @ + 1,
              !.ReadIndex = @ + FrameSize(PayloadLen),
              !.events = Append(@, Event("ok", S.ReadIndex, PayloadLen))]

RejectCrc(S, PayloadLen) ==
    [S EXCEPT !.OutCrcMismatches = @ + 1,
              !.TotalCrcMismatches = @ + 1,
              !.OutBytesDropped = @ + 1,
              !.TotalBytesDropped = @ + 1,
              !.ReadIndex = Resync(@),
              !.events = Append(@, Event("crc", S.ReadIndex, PayloadLen))]

\* lines 150-163: valid packet
AcceptFrame_Prepend(S, PayloadLen) ==
    [S EXCEPT !.OutPackets = <<DecodePacketAt(S.Buffer, S.ReadIndex, PayloadLen)>> \o @,
              !.PacketsParsed = @ + 1,
              !.TotalPacketsDecoded = @ + 1,
              !.ReadIndex = @ + FrameSize(PayloadLen),
              !.events = Append(@, Event("ok", S.ReadIndex, PayloadLen))]

AcceptFrame(S, PayloadLen) ==
    [S EXCEPT !.OutPackets = Append(@, DecodePacketAt(S.Buffer, S.ReadIndex, PayloadLen)),
              !.PacketsParsed = @ + 1,
              !.TotalPacketsDecoded = @ + 1,
              !.ReadIndex = @ + FrameSize(PayloadLen),
              !.events = Append(@, Event("ok", S.ReadIndex, PayloadLen))]

\* One iteration of the scan loop (lines 36-163).
Iterate(S) ==
    LET StartIndex == FindStartByte(S.Buffer, S.ReadIndex)
    IN IF StartIndex = INDEX_NONE THEN NoStartByte(S)
       ELSE
         LET J == DiscardJunk(S, StartIndex)
             BytesRemaining == Num(J.Buffer) - J.ReadIndex
         IN IF BytesRemaining < MinBytesToReadHeader THEN WaitForData(J, "hdr", 0)
            ELSE
              LET PayloadLen == At(J.Buffer, J.ReadIndex + 6)
              IN IF PayloadLen > MaxPayloadLen THEN RejectLength(J, PayloadLen)
                 ELSE IF BytesRemaining < FrameSize(PayloadLen)
                      THEN WaitForData(J, "frame", PayloadLen)
                 ELSE IF At(J.Buffer, EndByteIndex(J.ReadIndex, PayloadLen)) # EndByte
                      THEN RejectEnd(J, PayloadLen)
                 ELSE IF ComputeCrc(J.Buffer, J.ReadIndex, PayloadLen)
                           # At(J.Buffer, J.ReadIndex + 7 + PayloadLen)
                      THEN RejectCrc(J, PayloadLen)
                 ELSE AcceptFrame(J, PayloadLen)

BeginParse_KeepOuts(S) ==
    [S EXCEPT !.OutPackets = << >>,
              !.PacketsParsed = 0,
              !.ReadIndex = 0,
              !.stop = FALSE,
              !.events = << >>]

\* lines 25-31: the out-parameters and the locals are reset
BeginParse(S) ==
    [S EXCEPT !.OutPackets = << >>,
              !.OutBytesDropped = 0,
              !.OutBadEndFrames = 0,
              !.OutCrcMismatches = 0,
              !.PacketsParsed = 0,
              !.ReadIndex = 0,
              !.stop = FALSE,
              !.events = << >>]

RECURSIVE RunLoop(_)
RunLoop(S) ==
    IF LoopCondition(S) /\ ~S.stop THEN RunLoop(Iterate(S)) ELSE S

\* lines 166-182: compact the buffer, return PacketsParsed
Compact_Reset(S) ==
    [S EXCEPT !.Buffer = IF S.ReadIndex > 0 THEN << >> ELSE @,
              !.Result = S.PacketsParsed]

Compact_Keep(S) == [S EXCEPT !.Result = S.PacketsParsed]

Compact(S) ==
    [S EXCEPT !.Buffer = IF S.ReadIndex > 0
                         THEN IF S.ReadIndex >= Num(S.Buffer) THEN << >>
                              ELSE Drop(S.Buffer, S.ReadIndex)
                         ELSE @,
              !.Result = S.PacketsParsed]

\* ParsePackets (lines 23-183)
ParsePacketsF(S) == Compact(RunLoop(BeginParse(S)))

\* IngestAndParse (lines 185-189)
IngestAndParseF(S, InBytes) == ParsePacketsF(AppendBytesF(S, InBytes))

\* ResetBuffer (lines 191-194) and ResetStatistics (lines 201-208)
ResetBufferF(S) == [S EXCEPT !.Buffer = << >>]

ResetStatisticsF_AlsoBuffer(S) ==
    [S EXCEPT !.TotalBytesIn = 0,
              !.TotalPacketsDecoded = 0,
              !.TotalBytesDropped = 0,
              !.TotalBadEndFrames = 0,
              !.TotalCrcMismatches = 0,
              !.Buffer = << >>]

ResetStatisticsF(S) ==
    [S EXCEPT !.TotalBytesIn = 0,
              !.TotalPacketsDecoded = 0,
              !.TotalBytesDropped = 0,
              !.TotalBadEndFrames = 0,
              !.TotalCrcMismatches = 0]

GetBufferedByteCount == Num(Buffer)

-----------------------------------------------------------------------------
(* What the byte source sends.  Frames are built the way the test code      *)
(* builds them (CreateTestByteStream, RunPacketParserTest).                  *)

MaxShortLen == 2        \* payloads of 0..MaxShortLen bytes are enumerated in full
MaxJunk == 3            \* junk bytes in front of a frame
MaxJunkRun == 6         \* longest all-junk input
MaxFrames == 3          \* back-to-back frames in one burst

\* the CRC helper lambda of the tests: XOR of Bytes[Start+1 .. Start+6+Len]
TestComputeCrc(Bytes, Start, PLen) == XorRange(Bytes, Start + 1, Start + 6 + PLen)

Fields(hd, p) ==
    [Ver |-> hd[1], Src |-> hd[2], Type |-> hd[3],
     SeqLo |-> hd[4], SeqHi |-> hd[5], Payload |-> p]

NoFields == Fields(<<0, 0, 0, 0, 0>>, << >>)

\* the bytes of the valid frame that carries the fields f
MakeFrame(f) ==
    LET Open == <<StartByte, f.Ver, f.Src, f.Type, f.SeqLo, f.SeqHi, Len(f.Payload)>>
                    \o f.Payload
    IN Open \o <<TestComputeCrc(Open, 0, Len(f.Payload)), EndByte>>

\* the packet a frame with the fields f stands for
PacketOf(f) ==
    [Ver |-> f.Ver, Src |-> f.Src, Type |-> f.Type,
     Seq |-> f.SeqLo + 256 * f.SeqHi,
     Len |-> Len(f.Payload), Payload |-> f.Payload]

\* a full-length frame with a wrong END byte, a wrong CRC byte, or both
WithEnd(fr, e) == [fr EXCEPT ![Len(fr)] = e]
WithCrc(fr, m) == [fr EXCEPT ![Len(fr) - 1] = BitXor(@, m)]

Headers ==
    { <<1, 2, 3, 2, 1>>, <<1, 0, 5, 1, 0>>, <<2, 0, 1, 52, 18>>,
      <<170, 170, 170, 170, 170>>, <<85, 85, 85, 85, 85>>, <<255, 170, 0, 85, 255>> }

PayVals == {170, 85, 171}

ShortPayloads == UNION { [1..n -> PayVals] : n \in 0..MaxShortLen }

LongPayloads ==
    { <<17, 34, 51, 68, 85>>,
      [i \in 1..MaxPayloadLen |-> IF i % 2 = 1 THEN 170 ELSE 85],
      [i \in 1..MaxPayloadLen |-> i] }

ValidFields == { Fields(hd, p) : hd \in Headers, p \in ShortPayloads \cup LongPayloads }

\* a few frames for the scenarios that combine several
FewFields ==
    { Fields(<<1, 2, 3, 2, 1>>, <<171, 205>>),
      Fields(<<1, 0, 5, 1, 0>>, << >>),
      Fields(<<170, 85, 170, 4, 5>>, <<170>>) }

JunkByte(i) == <<18, 52, 86, 85, 0>>[(i % 5) + 1]
JunkRun(k) == [i \in 1..k |-> JunkByte(i - 1)]

Seg(t, bytes, f) == [t |-> t, bytes |-> bytes, f |-> f]
ValidSeg(f) == Seg("valid", MakeFrame(f), f)
JunkSeg(k) == Seg("junk", JunkRun(k), NoFields)

Scenario(kind, segs) == [kind |-> kind, segs |-> segs]

Stream(sc) == Concat([i \in 1..Len(sc.segs) |-> sc.segs[i].bytes])

\* k junk bytes, then one valid frame
FrameScenarios ==
    { Scenario("frame", <<JunkSeg(k), ValidSeg(f)>>) : k \in 0..MaxJunk, f \in ValidFields }

\* k junk bytes, then one of the few frames
PrefixScenarios ==
    { Scenario("frame", <<JunkSeg(k), ValidSeg(f)>>) : k \in 0..MaxJunk, f \in FewFields }

\* a corrupted frame directly followed by a valid one
CorruptBases ==
    { Fields(hd, p) : hd \in Headers,
                      p \in { << >>, <<170>>, <<85>>, <<171, 171>>,
                              [i \in 1..MaxPayloadLen |-> i] } }

CorruptSegs ==
    { Seg("badend", WithEnd(MakeFrame(g), e), g) : g \in CorruptBases, e \in {0, 170} }
    \cup { Seg("badend", WithCrc(WithEnd(MakeFrame(g), 0), 1), g) : g \in CorruptBases }
    \cup { Seg("badcrc", WithCrc(MakeFrame(g), m), g) : g \in CorruptBases, m \in {1, 255} }

CorruptScenarios ==
    { Scenario("corrupt", <<cs, ValidSeg(f)>>) : cs \in CorruptSegs, f \in FewFields }

\* nothing but junk
JunkScenarios == { Scenario("junk", <<JunkSeg(k)>>) : k \in 1..MaxJunkRun }

\* k valid frames back to back
BurstScenarios ==
    { Scenario("burst", [i \in 1..Len(fs) |-> ValidSeg(fs[i])]) :
        fs \in UNION { [1..n -> FewFields] : n \in 1..MaxFrames } }

\* a frame whose payload holds a whole valid frame; the outer frame is valid,
\* has a wrong END or CRC byte, or is cut short so that it is still incomplete
Wrap(hd, pre, f, post) == Fields(hd, pre \o MakeFrame(f) \o post)

Wraps ==
    { Wrap(hd, pre, f, post) : hd \in {<<1, 2, 3, 2, 1>>, <<170, 170, 170, 170, 170>>},
                               pre \in {<< >>, <<170>>}, f \in FewFields,
                               post \in {<< >>, <<85>>} }

NestedSegs ==
    { Seg("valid", MakeFrame(w), w) : w \in Wraps }
    \cup { Seg("badend", WithEnd(MakeFrame(w), 0), w) : w \in Wraps }
    \cup { Seg("badcrc", WithCrc(MakeFrame(w), 1), w) : w \in Wraps }
    \cup { Seg("cut", Take(MakeFrame(w), Len(MakeFrame(w)) - 1), w) : w \in Wraps }

NestedScenarios ==
    { Scenario("nested", <<ns>>) : ns \in NestedSegs }
    \cup { Scenario("nested", <<ns, ValidSeg(f)>>) : ns \in NestedSegs, f \in FewFields }

\* false start markers in front of a valid frame
RawPrefixes ==
    { <<170>>, <<170, 170>>, <<170, 0, 0, 0, 0, 0, 99>>, <<170, 170, 0, 0, 0, 0, 0, 99>>,
      <<170, 1, 2, 3, 4, 5, 0, 85>>, <<85, 170, 85>>,
      [i \in 1..(MinFrameSize - 1) |-> 170] }

NoiseScenarios ==
    { Scenario("noise", <<Seg("raw", r, NoFields), ValidSeg(f), Seg("raw", t, NoFields)>>) :
        r \in RawPrefixes, f \in FewFields, t \in {<< >>, <<170, 1, 222, 173>>} }

\* CreateTestByteStream (ArduinoBlueprintLibrary.cpp)
TestStream ==
    Scenario("teststream",
        << Seg("junk", <<18, 52, 86>>, NoFields),
           ValidSeg(Fields(<<1, 2, 3, 2, 1>>, <<171, 205>>)),
           ValidSeg(Fields(<<1, 0, 5, 1, 0>>, << >>)),
           Seg("badend", WithEnd(MakeFrame(Fields(<<1, 153, 136, 119, 102>>, << >>)), 0),
               Fields(<<1, 153, 136, 119, 102>>, << >>)),
           ValidSeg(Fields(<<2, 0, 1, 52, 18>>, <<255>>)),
           Seg("partial", <<170, 1, 222, 173>>, NoFields) >>)

-----------------------------------------------------------------------------
(* Configurations: the three properties a host sets right after creating    *)
(* the parser (UPacketParserComponent::InitializeParser, test 5).            *)

DefaultConfig == <<DefaultMaxBufferBytes, DefaultTrimToBytes, DefaultMaxPacketsPerCall>>

JunkConfigs == { DefaultConfig, <<4, 2, 200>>, <<4, 0, 200>>, <<3, 5, 200>>, <<4, 2, 0>> }

\* a buffer that overflows on a few junk bytes in front of a frame, and, like
\* the default configuration, keeps room for a whole frame when it trims
\* (the longest of the few frames has MinFrameSize + 2 bytes)
PrefixConfigs == { <<MinFrameSize + 3, MinFrameSize + 2, DefaultMaxPacketsPerCall>> }

BurstConfigs ==
    { DefaultConfig, <<DefaultMaxBufferBytes, DefaultTrimToBytes, 1>>,
      <<DefaultMaxBufferBytes, DefaultTrimToBytes, 2>>,
      <<DefaultMaxBufferBytes, DefaultTrimToBytes, 0>>, <<20, 9, 1>>, <<20, 9, 2>> }

-----------------------------------------------------------------------------
(* State after construction, and the calls                                   *)

Pre(S) ==
    [TotalBytesIn        |-> S.TotalBytesIn,
     TotalPacketsDecoded |-> S.TotalPacketsDecoded,
     TotalBytesDropped   |-> S.TotalBytesDropped,
     TotalBadEndFrames   |-> S.TotalBadEndFrames,
     TotalCrcMismatches  |-> S.TotalCrcMismatches]

\* position in the byte stream just behind the last frame decoded so far:
\* base is the stream position of the first byte the scan loop started on,
\* old the value before the call
LastEnd(events, base, old) ==
    LET oks == {i \in 1..Len(events) : events[i].kind = "ok"}
    IN IF oks = {} THEN old
       ELSE LET last == CHOOSE i \in oks : \A j \in oks : j <= i
            IN base + events[last].at + FrameSize(events[last].len)

\* bytes of the frames the iterations es decoded
FramedBytes(es) ==
    LET Sum[i \in 0..Len(es)] ==
          IF i = 0 THEN 0
          ELSE Sum[i - 1] + (IF es[i].kind = "ok" THEN FrameSize(es[i].len) ELSE 0)
    IN Sum[Len(es)]

\* the record of a call op(arg) that took the parser from S0 to S1
\* (scanned: the buffer the scan loop of the call started on; framed: bytes of
\* all frames decoded since construction; got: all packets returned since
\* construction, in call order; ingestOnly: every call so far was
\* IngestAndParse)
Call(op, arg, S0, S1) ==
    [op |-> op, arg |-> arg, preBuf |-> S0.Buffer, pre |-> Pre(S0),
     scanned |-> AppendBytesF(S0, arg).Buffer,
     events |-> S1.events, evicted |-> S1.evicted,
     framed |-> h.framed + FramedBytes(S1.events),
     got |-> IF op \in {"ParsePackets", "IngestAndParse"}
             THEN h.got \o S1.OutPackets ELSE h.got,
     ingestOnly |-> h.ingestOnly /\ op = "IngestAndParse",
     lastEnd |-> LastEnd(S1.events,
                         (Len(Stream(scn)) - Len(feed)) + Len(arg)
                           - Len(AppendBytesF(S0, arg).Buffer),
                         h.lastEnd)]

NoCall ==
    [op |-> "new", arg |-> << >>, preBuf |-> << >>,
     pre |-> [TotalBytesIn |-> 0, TotalPacketsDecoded |-> 0, TotalBytesDropped |-> 0,
              TotalBadEndFrames |-> 0, TotalCrcMismatches |-> 0],
     scanned |-> << >>, events |-> << >>, evicted |-> 0,
     framed |-> 0, got |-> << >>, ingestOnly |-> TRUE, lastEnd |-> 0]

\* what is kept of a call once the next call has returned: its name, whether
\* it handed the whole stream of the byte source to an empty buffer, whether
\* its argument was empty, whether it returned MaxPacketsPerCall packets, and
\* the stream position behind the last frame decoded up to it
Before(c) ==
    [op |-> c.op,
     whole |-> c.arg # << >> /\ c.arg = Stream(scn) /\ c.preBuf = << >>,
     empty |-> c.arg = << >>,
     capped |-> c.op \in {"ParsePackets", "IngestAndParse"} /\ Result >= MaxPacketsPerCall,
     lastEnd |-> c.lastEnd]

Constructed(sc, cfg) ==
    /\ Buffer = << >>
    /\ MaxBufferBytes = cfg[1]
    /\ TrimToBytes = cfg[2]
    /\ MaxPacketsPerCall = cfg[3]
    /\ TotalBytesIn = 0
    /\ TotalPacketsDecoded = 0
    /\ TotalBytesDropped = 0
    /\ TotalBadEndFrames = 0
    /\ TotalCrcMismatches = 0
    /\ OutPackets = << >>
    /\ OutBytesDropped = 0
    /\ OutBadEndFrames = 0
    /\ OutCrcMismatches = 0
    /\ Result = 0
    /\ pc = "idle"
    /\ ReadIndex = 0
    /\ PacketsParsed = 0
    /\ scn = sc
    /\ feed = Stream(sc)
    /\ h = NoCall
    /\ prev = Before(NoCall)

\* the object's fields and the caller's out-parameters after a call
Commit(S) ==
    /\ Buffer' = S.Buffer
    /\ TotalBytesIn' = S.TotalBytesIn
    /\ TotalPacketsDecoded' = S.TotalPacketsDecoded
    /\ TotalBytesDropped' = S.TotalBytesDropped
    /\ TotalBadEndFrames' = S.TotalBadEndFrames
    /\ TotalCrcMismatches' = S.TotalCrcMismatches
    /\ OutPackets' = S.OutPackets
    /\ OutBytesDropped' = S.OutBytesDropped
    /\ OutBadEndFrames' = S.OutBadEndFrames
    /\ OutCrcMismatches' = S.OutCrcMismatches
    /\ Result' = S.Result

Returned(op, arg, S) ==
    /\ pc = "idle"
    /\ Commit(S)
    /\ h' = Call(op, arg, Self, S)
    /\ prev' = Before(h)
    /\ UNCHANGED <<config, locals, scn>>

CallAppendBytes(InBytes) == Returned("AppendBytes", InBytes, AppendBytesF(Self, InBytes))
CallParsePackets == Returned("ParsePackets", << >>, ParsePacketsF(Self))
CallIngestAndParse(InBytes) ==
    Returned("IngestAndParse", InBytes, IngestAndParseF(Self, InBytes))
CallResetBuffer == Returned("ResetBuffer", << >>, ResetBufferF(Self))
CallResetStatistics == Returned("ResetStatistics", << >>, ResetStatisticsF(Self))

-----------------------------------------------------------------------------
(* SpecWhole: the byte source delivers its whole stream in one call.         *)

InitWhole ==
    \/ \E sc \in FrameScenarios \cup CorruptScenarios \cup NestedScenarios
                 \cup NoiseScenarios \cup {TestStream} :
          Constructed(sc, DefaultConfig)
    \/ \E sc \in JunkScenarios, cfg \in JunkConfigs : Constructed(sc, cfg)
    \/ \E sc \in BurstScenarios, cfg \in BurstConfigs : Constructed(sc, cfg)
    \/ \E sc \in NoiseScenarios \cup {TestStream}, cfg \in BurstConfigs \ {DefaultConfig} :
          Constructed(sc, cfg)
    \/ \E sc \in PrefixScenarios, cfg \in PrefixConfigs : Constructed(sc, cfg)

AppendWhole == feed # << >> /\ CallAppendBytes(feed) /\ feed' = << >>
IngestWhole == feed # << >> /\ CallIngestAndParse(feed) /\ feed' = << >>
ParsePackets == CallParsePackets /\ UNCHANGED feed

NextWhole == AppendWhole \/ IngestWhole \/ ParsePackets

SpecWhole == InitWhole /\ [][NextWhole]_vars

-----------------------------------------------------------------------------
(* Spec: the byte source delivers its stream in chunks of any size, and the  *)
(* host may call any operation between two chunks.                           *)

TinyScenarios ==
    { Scenario("frame", <<JunkSeg(0), ValidSeg(Fields(<<1, 0, 5, 1, 0>>, << >>))>>),
      Scenario("noise", <<Seg("raw", <<170>>, NoFields),
                          ValidSeg(Fields(<<1, 0, 5, 1, 0>>, << >>)),
                          Seg("raw", << >>, NoFields)>>),
      Scenario("junk", <<JunkSeg(MaxJunk + 2)>>) }

TinyConfigs == { DefaultConfig, <<8, 4, 1>> }

Init == \E sc \in TinyScenarios, cfg \in TinyConfigs : Constructed(sc, cfg)

AppendBytes ==
    \E n \in 0..Len(feed) : CallAppendBytes(Take(feed, n)) /\ feed' = Drop(feed, n)

IngestAndParse ==
    \E n \in 0..Len(feed) : CallIngestAndParse(Take(feed, n)) /\ feed' = Drop(feed, n)

ResetBuffer == CallResetBuffer /\ UNCHANGED feed

ResetStatistics == CallResetStatistics /\ UNCHANGED feed

Next == AppendBytes \/ ParsePackets \/ IngestAndParse \/ ResetBuffer \/ ResetStatistics

Spec == Init /\ [][Next]_vars

-----------------------------------------------------------------------------
(* SpecSplit: the stream arrives in chunks of any size (default              *)
(* configuration, no resets).                                                *)

SplitFields ==
    FewFields \cup { Fields(<<1, 0, 1, 1, 0>>, <<17, 34, 51, 68, 85>>),
                     Fields(<<1, 2, 3, 2, 1>>, [i \in 1..MaxPayloadLen |-> i]) }

SplitScenarios ==
    { Scenario("frame", <<JunkSeg(0), ValidSeg(f)>>) : f \in SplitFields }
    \cup { Scenario("frame", <<JunkSeg(k), ValidSeg(f)>>) : k \in 1..MaxJunk, f \in FewFields }
    \cup { Scenario("corrupt", <<cs, ValidSeg(Fields(<<1, 0, 5, 1, 0>>, << >>))>>) :
             cs \in { Seg("badend", WithEnd(MakeFrame(g), e), g) :
                        g \in {Fields(<<1, 170, 5, 1, 0>>, << >>)}, e \in {0, 170} } }

InitSplit == \E sc \in SplitScenarios : Constructed(sc, DefaultConfig)

NextSplit == AppendBytes \/ IngestAndParse \/ ParsePackets

SpecSplit == InitSplit /\ [][NextSplit]_vars

-----------------------------------------------------------------------------
(* SpecLoop: ParsePackets one loop iteration at a time.  The call is         *)
(* synchronous: once entered it runs on until it returns.                    *)

SelfInLoop == [Self EXCEPT !.events = h.events]

Entered(op, arg, S) ==
    /\ pc = "idle"
    /\ Commit(S)
    /\ ReadIndex' = S.ReadIndex
    /\ PacketsParsed' = S.PacketsParsed
    /\ pc' = "loop"
    /\ h' = Call(op, arg, Self, S)
    /\ prev' = Before(h)
    /\ UNCHANGED <<config, scn>>

ParseBegin == Entered("ParsePackets", << >>, BeginParse(Self)) /\ UNCHANGED feed

IngestBegin ==
    /\ feed # << >>
    /\ Entered("IngestAndParse", feed, BeginParse(AppendBytesF(Self, feed)))
    /\ feed' = << >>

LoopStep ==
    /\ pc = "loop"
    /\ LoopCondition(SelfInLoop)
    /\ \E S \in {Iterate(SelfInLoop)} :
          /\ Commit(S)
          /\ ReadIndex' = S.ReadIndex
          /\ PacketsParsed' = S.PacketsParsed
          /\ pc' = IF S.stop THEN "compact" ELSE "loop"
          /\ h' = [h EXCEPT !.events = S.events,
                            !.framed = @ + FramedBytes(S.events) - FramedBytes(h.events),
                            !.got = @ \o SubSeq(S.OutPackets, Len(OutPackets) + 1,
                                                Len(S.OutPackets)),
                            !.lastEnd = LastEnd(S.events,
                                                (Len(Stream(scn)) - Len(feed)) - Len(h.scanned),
                                                prev.lastEnd)]
    /\ UNCHANGED <<config, scn, feed, prev>>

LoopExit ==
    /\ pc = "loop"
    /\ ~LoopCondition(SelfInLoop)
    /\ pc' = "compact"
    /\ UNCHANGED <<Buffer, config, stats, outs, ReadIndex, PacketsParsed, scn, feed, h, prev>>

ParseEnd ==
    /\ pc = "compact"
    /\ \E S \in {Compact(SelfInLoop)} : Commit(S)
    /\ pc' = "idle"
    /\ ReadIndex' = 0
    /\ PacketsParsed' = 0
    /\ UNCHANGED <<config, scn, feed, h, prev>>

NextLoop == AppendWhole \/ ParseBegin \/ IngestBegin \/ LoopStep \/ LoopExit \/ ParseEnd

\* streams with false start markers, rejected frames and bursts; small caps
LoopConfigs == { <<DefaultMaxBufferBytes, DefaultTrimToBytes, 1>>,
                 <<20, 9, 2>> }

InitLoop ==
    \/ \E sc \in NoiseScenarios \cup NestedScenarios \cup {TestStream} :
          Constructed(sc, DefaultConfig)
    \/ \E sc \in NoiseScenarios \cup BurstScenarios, cfg \in LoopConfigs :
          Constructed(sc, cfg)
    \/ \E sc \in JunkScenarios, cfg \in JunkConfigs : Constructed(sc, cfg)

SpecLoop ==
    InitLoop /\ [][NextLoop]_vars /\ WF_vars(LoopStep \/ LoopExit \/ ParseEnd)

-----------------------------------------------------------------------------
(* SpecDrain: the steps of SpecLoop with a host that keeps calling           *)
(* ParsePackets (UPacketParserComponent::FlushAndParse, TickComponent) on    *)
(* a backlog of frames larger than the packet cap.                           *)

\* n copies of one frame back to back, and the reference test stream
DrainScenarios ==
    { Scenario("burst", [i \in 1..n |-> ValidSeg(f)]) : n \in 1..MaxFrames, f \in FewFields }
    \cup { TestStream }

DrainConfigs == { <<DefaultMaxBufferBytes, DefaultTrimToBytes, 1>>,
                  <<DefaultMaxBufferBytes, DefaultTrimToBytes, 2>> }

InitDrain == \E sc \in DrainScenarios, cfg \in DrainConfigs : Constructed(sc, cfg)

SpecDrain ==
    /\ InitDrain /\ [][NextLoop]_vars
    /\ WF_vars(LoopStep \/ LoopExit \/ ParseEnd)
    /\ WF_vars(ParseBegin)

-----------------------------------------------------------------------------
(* Properties                                                                *)

\* the whole stream was appended to the empty buffer by one AppendBytes call,
\* and the call after it was ParsePackets
AppendedThenParsed ==
    /\ prev.op = "AppendBytes" /\ prev.whole
    /\ h.op = "ParsePackets"

\* no start marker after the first byte
NoStartInside(bytes) == \A i \in 2..Len(bytes) : bytes[i] # StartByte

\* C1 - framing round trip: with the default configuration, appending one
\* valid frame to an empty buffer and parsing returns exactly one packet, with
\* the frame's fields, and leaves the buffer empty.
C1_RoundTrip ==
    (/\ scn.kind = "frame" /\ scn.segs[1].bytes = << >>
     /\ config = DefaultConfig
     /\ AppendedThenParsed)
    => /\ Result = 1
       /\ OutPackets = <<PacketOf(scn.segs[2].f)>>
       /\ Buffer = << >>

C1_Witness ==
    /\ scn.kind = "frame" /\ scn.segs[1].bytes = << >>
    /\ config = DefaultConfig
    /\ AppendedThenParsed
    /\ scn.segs[2].f.Payload = <<170, 85>>
    /\ Len(OutPackets) = 1 /\ OutPackets[1].Payload = <<170, 85>>

\* C2 as stated - resync precision for every corrupted frame: a corrupted
\* frame directly followed by a valid one yields exactly the valid frame's
\* packet, and the counter of the corruption goes up by exactly 1.
C2_ResyncAnyBytes ==
    (/\ scn.kind = "corrupt"
     /\ config = DefaultConfig
     /\ AppendedThenParsed)
    => /\ Result = 1
       /\ OutPackets = <<PacketOf(scn.segs[2].f)>>
       /\ scn.segs[1].t = "badend" =>
             /\ OutBadEndFrames = 1
             /\ TotalBadEndFrames = h.pre.TotalBadEndFrames + 1
       /\ scn.segs[1].t = "badcrc" =>
             /\ OutCrcMismatches = 1
             /\ TotalCrcMismatches = h.pre.TotalCrcMismatches + 1

\* C2 amended - resync precision when the corrupted frame holds no 0xAA after
\* its start byte (default configuration): exactly the valid frame's packet is
\* returned; a wrong END byte counts one bad end frame and no CRC mismatch, a
\* right END byte with a wrong CRC byte counts one CRC mismatch and no bad
\* end frame.
C2_ResyncCleanBody ==
    (/\ scn.kind = "corrupt"
     /\ NoStartInside(scn.segs[1].bytes)
     /\ config = DefaultConfig
     /\ AppendedThenParsed)
    => /\ Result = 1
       /\ OutPackets = <<PacketOf(scn.segs[2].f)>>
       /\ Buffer = << >>
       /\ scn.segs[1].t = "badend" =>
             /\ OutBadEndFrames = 1 /\ OutCrcMismatches = 0
             /\ TotalBadEndFrames = h.pre.TotalBadEndFrames + 1
             /\ TotalCrcMismatches = h.pre.TotalCrcMismatches
       /\ scn.segs[1].t = "badcrc" =>
             /\ OutCrcMismatches = 1 /\ OutBadEndFrames = 0
             /\ TotalCrcMismatches = h.pre.TotalCrcMismatches + 1
             /\ TotalBadEndFrames = h.pre.TotalBadEndFrames

C2_Witness ==
    /\ scn.kind = "corrupt"
    /\ NoStartInside(scn.segs[1].bytes)
    /\ config = DefaultConfig
    /\ AppendedThenParsed
    /\ scn.segs[1].t = "badcrc"
    /\ Len(scn.segs[1].bytes) = MinFrameSize + MaxPayloadLen
    /\ OutCrcMismatches = 1 /\ Result = 1

\* the last call ran the scan loop
Parsed == h.op \in {"ParsePackets", "IngestAndParse"}

RECURSIVE XorAll(_)
XorAll(bytes) == IF bytes = << >> THEN 0 ELSE BitXor(Head(bytes), XorAll(Tail(bytes)))

\* a complete valid frame starts at offset F of B
ValidFrameAt(B, F) ==
    /\ F >= 0 /\ F + MinBytesToReadHeader <= Len(B)
    /\ B[F + 1] = 170
    /\ B[F + 7] <= 32
    /\ F + 9 + B[F + 7] <= Len(B)
    /\ B[F + 9 + B[F + 7]] = 85
    /\ B[F + 8 + B[F + 7]] = XorAll(SubSeq(B, F + 2, F + 7 + B[F + 7]))

\* offset of the first 0xAA of B strictly after offset S, or -1
FirstStartAfter(B, S) ==
    IF \E j \in (S + 1)..(Len(B) - 1) : B[j + 1] = 170
    THEN CHOOSE j \in (S + 1)..(Len(B) - 1) :
            /\ B[j + 1] = 170
            /\ \A k \in (S + 1)..(j - 1) : B[k + 1] # 170
    ELSE -1

Rejections == {"len", "end", "crc"}

\* C3 - single-byte resync: after every rejection the next candidate examined
\* is the first 0xAA strictly after the rejected start; and a complete valid
\* frame at offset F is decoded in the call, unless the packet cap is reached
\* first or an earlier candidate either is accepted with a span past F or
\* stops the loop for lack of data.
C3_SingleByteResync ==
    Parsed =>
      /\ \A i \in 1..Len(h.events) :
            h.events[i].kind \in Rejections =>
              /\ i < Len(h.events)
              /\ LET nxt == FirstStartAfter(h.scanned, h.events[i].at)
                 IN IF nxt = -1
                    THEN h.events[i + 1].kind = "none"
                    ELSE h.events[i + 1].kind # "none" /\ h.events[i + 1].at = nxt
      /\ \A F \in 0..(Len(h.scanned) - 1) :
            (/\ ValidFrameAt(h.scanned, F)
             /\ Cardinality({i \in 1..Len(h.events) :
                    h.events[i].kind = "ok" /\ h.events[i].at < F}) < MaxPacketsPerCall
             /\ \A i \in 1..Len(h.events) :
                    h.events[i].at < F =>
                      /\ ~(h.events[i].kind = "ok"
                           /\ h.events[i].at + 9 + h.events[i].len > F)
                      /\ h.events[i].kind \notin {"hdr", "frame"})
            => \E i \in 1..Len(h.events) :
                  /\ h.events[i] = Event("ok", F, h.scanned[F + 7])
                  /\ \E n \in 1..Len(OutPackets) :
                        OutPackets[n].Payload
                          = SubSeq(h.scanned, F + 8, F + 7 + h.scanned[F + 7])

\* a frame embedded in the span of a rejected candidate was decoded
C3_Witness ==
    /\ Parsed
    /\ \E i, j \in 1..Len(h.events) :
          /\ i < j
          /\ h.events[i].kind \in {"end", "crc"}
          /\ h.events[j].kind = "ok"
          /\ h.events[j].at + 9 + h.events[j].len <= h.events[i].at + 9 + h.events[i].len

\* bytes of the stream delivered so far, and before the last call
Delivered == Len(Stream(scn)) - Len(feed)
DeliveredBefore == Delivered - Len(h.arg)

\* C4 - split-frame reassembly (default configuration): while only a proper
\* part of the frame has arrived, no call returns a packet or drops a byte and
\* the buffer holds exactly the part delivered; the call that completes the
\* frame (IngestAndParse of the last chunk, or ParsePackets after it was
\* appended) returns exactly the packet of the frame delivered whole.
C4_SplitFrame ==
    (/\ scn.kind = "frame" /\ scn.segs[1].bytes = << >>
     /\ config = DefaultConfig
     /\ h.op \in {"AppendBytes", "ParsePackets", "IngestAndParse"}
     /\ h.preBuf = Take(Stream(scn), DeliveredBefore))
    => /\ (Delivered < Len(Stream(scn)) \/ h.op = "AppendBytes") =>
             /\ Buffer = Take(Stream(scn), Delivered)
             /\ TotalBytesDropped = h.pre.TotalBytesDropped
             /\ TotalPacketsDecoded = h.pre.TotalPacketsDecoded
             /\ h.op # "AppendBytes" => Result = 0 /\ OutPackets = << >> /\ OutBytesDropped = 0
       /\ (Delivered = Len(Stream(scn)) /\ h.op # "AppendBytes") =>
             /\ Result = 1
             /\ OutPackets = <<PacketOf(scn.segs[2].f)>>
             /\ OutPackets = IngestAndParseF(NoSelf, Stream(scn)).OutPackets
             /\ OutBytesDropped = 0
             /\ Buffer = << >>

\* the last chunk of a frame split in mid-payload completed it
C4_Witness ==
    /\ scn.kind = "frame" /\ scn.segs[1].bytes = << >>
    /\ config = DefaultConfig
    /\ h.op = "IngestAndParse"
    /\ Len(h.preBuf) = MinBytesToReadHeader + 1 /\ h.preBuf = Take(Stream(scn), DeliveredBefore)
    /\ Len(h.arg) > 0 /\ feed = << >>
    /\ Len(scn.segs[2].f.Payload) = MaxPayloadLen
    /\ Result = 1

\* C5 as stated - all-junk input: IngestAndParse of n >= 1 bytes without a
\* 0xAA on an empty buffer returns no packet, reports n bytes dropped and
\* leaves the buffer empty.
C5_AllJunk ==
    (/\ h.op = "IngestAndParse" /\ h.preBuf = << >>
     /\ Len(h.arg) >= 1
     /\ \A i \in 1..Len(h.arg) : h.arg[i] # 170)
    => /\ Result = 0 /\ OutPackets = << >>
       /\ OutBytesDropped = Len(h.arg)
       /\ Buffer = << >>

\* the frames of a burst from the i-th on: their bytes, their packets
FramesFrom(i) == Concat([n \in 1..(Len(scn.segs) - i + 1) |-> scn.segs[n + i - 1].bytes])
PacketsFromTo(i, j) == [n \in 1..(j - i + 1) |-> PacketOf(scn.segs[n + i - 1].f)]
Min2(a, b) == IF a <= b THEN a ELSE b

\* C6 as stated - packet cap: k > MaxPacketsPerCall back-to-back valid frames
\* appended in one call; the next ParsePackets returns exactly the first
\* MaxPacketsPerCall frames and the others stay buffered.
C6_PacketCapAnyBurst ==
    (/\ scn.kind = "burst" /\ Len(scn.segs) > MaxPacketsPerCall
     /\ AppendedThenParsed)
    => /\ Result = MaxPacketsPerCall
       /\ OutPackets = PacketsFromTo(1, MaxPacketsPerCall)
       /\ Buffer = FramesFrom(MaxPacketsPerCall + 1)

\* C6 amended - packet cap when the burst fits the buffer (its length is at
\* most MaxBufferBytes, so AppendBytes evicts nothing) and MaxPacketsPerCall
\* is not negative: every ParsePackets call that finds the frames from the
\* (j+1)-th on buffered returns the next MaxPacketsPerCall of them in order
\* (all of them if fewer are left) and leaves exactly the others buffered.
C6_PacketCap ==
    (/\ scn.kind = "burst"
     /\ Len(Stream(scn)) <= MaxBufferBytes /\ MaxPacketsPerCall >= 0
     /\ h.op = "ParsePackets" /\ feed = << >>)
    => \A j \in 0..(Len(scn.segs) - 1) :
          h.preBuf = FramesFrom(j + 1) =>
            LET last == Min2(Len(scn.segs), j + MaxPacketsPerCall)
            IN /\ (j = 0 /\ prev.op = "AppendBytes") => prev.whole
               /\ Result = last - j
               /\ OutPackets = PacketsFromTo(j + 1, last)
               /\ Buffer = FramesFrom(last + 1)
               /\ OutBytesDropped = 0

\* the second ParsePackets call returned the second frame of a burst of three
C6_Witness ==
    /\ scn.kind = "burst" /\ Len(scn.segs) = 3
    /\ MaxPacketsPerCall = 1 /\ Len(Stream(scn)) <= MaxBufferBytes
    /\ h.op = "ParsePackets" /\ prev.op = "ParsePackets"
    /\ h.preBuf = FramesFrom(2)
    /\ OutPackets = PacketsFromTo(2, 2)
    /\ Buffer = FramesFrom(3)

\* C7 as stated - bounded buffer: after every AppendBytes, ParsePackets or
\* IngestAndParse call at most MaxBufferBytes bytes are buffered.
C7_BoundedBuffer ==
    h.op \in {"AppendBytes", "ParsePackets", "IngestAndParse"}
    => GetBufferedByteCount <= MaxBufferBytes

\* C8 - overflow eviction: one call that feeds more than MaxBufferBytes bytes
\* without a 0xAA to an empty buffer leaves at most TrimToBytes bytes (or
\* none) buffered, and TotalBytesDropped grows by the number of bytes evicted
\* (plus, for IngestAndParse, the bytes its scan loop dropped).
C8_OverflowEviction ==
    (/\ h.op \in {"AppendBytes", "IngestAndParse"} /\ h.preBuf = << >>
     /\ Len(h.arg) > MaxBufferBytes
     /\ \A i \in 1..Len(h.arg) : h.arg[i] # 170)
    => /\ (GetBufferedByteCount <= TrimToBytes \/ GetBufferedByteCount = 0)
       /\ h.evicted >= 1
       /\ h.evicted = Len(h.arg) - Len(h.scanned)
       /\ TotalBytesDropped = h.pre.TotalBytesDropped + h.evicted
                              + (IF h.op = "IngestAndParse" THEN OutBytesDropped ELSE 0)

C8_Witness ==
    /\ h.op = "AppendBytes" /\ h.preBuf = << >>
    /\ Len(h.arg) > MaxBufferBytes
    /\ \A i \in 1..Len(h.arg) : h.arg[i] # 170
    /\ TrimToBytes > 0 /\ GetBufferedByteCount = TrimToBytes
    /\ TotalBytesDropped = Len(h.arg) - TrimToBytes

\* C9 - termination: every iteration of the scan loop leaves the loop, moves
\* ReadIndex forward, or decodes one more packet (never more than
\* MaxPacketsPerCall); and every ParsePackets call that is entered returns.
C9_Termination ==
    /\ [][pc = "loop" =>
            \/ pc' # "loop"
            \/ ReadIndex' > ReadIndex
            \/ PacketsParsed' > PacketsParsed /\ PacketsParsed' <= MaxPacketsPerCall]_vars
    /\ (pc = "loop") ~> (pc = "idle")

\* a call that rejected three false start markers in a row has returned
C9_Witness ==
    /\ pc = "idle" /\ Parsed
    /\ \E i \in 1..(Len(h.events) - 2) :
          \A k \in i..(i + 2) : h.events[k].kind \in Rejections

\* C10 as stated - iteration bound: the scan loop of one call runs at most
\* MaxPacketsPerCall times.
C10_IterationBound ==
    Parsed => Len(h.events) <= MaxPacketsPerCall

\* C10 amended - the scan loop of one call runs at most MaxPacketsPerCall
\* iterations that do not reject a candidate; every rejected candidate
\* (oversized LEN, bad END, bad CRC) costs one more iteration, and there are
\* at most as many rejections as 0xAA bytes in the buffer.
C10_IterationBoundRejections ==
    Parsed =>
      LET rejected == Cardinality({i \in 1..Len(h.events) : h.events[i].kind \in Rejections})
          starts == Cardinality({i \in 1..Len(h.scanned) : h.scanned[i] = 170})
      IN /\ Len(h.events) - rejected <= Max2(MaxPacketsPerCall, 0)
         /\ rejected <= starts
         /\ Len(h.events) <= Max2(MaxPacketsPerCall, 0) + starts

\* a call ran more iterations than MaxPacketsPerCall and stopped at the cap
C10_Witness ==
    /\ Parsed /\ MaxPacketsPerCall >= 1
    /\ Len(h.events) > MaxPacketsPerCall
    /\ Result = MaxPacketsPerCall

\* the buffer holds no input a scan could act on: it is empty, or it holds
\* the beginning of one frame that is not complete yet
Quiescent(B) ==
    \/ B = << >>
    \/ /\ B[1] = 170
       /\ \/ Len(B) < MinBytesToReadHeader
          \/ B[7] <= MaxPayloadLen /\ Len(B) < MinFrameSize + B[7]

\* C11 as stated - idempotence of empty input in every parser state:
\* AppendBytes of an empty array changes nothing, and the ParsePackets call
\* that follows it leaves the buffered byte count and the five cumulative
\* counters as they were.
C11_EmptyInputAnyState ==
    /\ (h.op = "AppendBytes" /\ h.arg = << >>) =>
          Buffer = h.preBuf /\ Pre(Self) = h.pre
    /\ (prev.op = "AppendBytes" /\ prev.empty /\ h.op = "ParsePackets") =>
          Len(Buffer) = Len(h.preBuf) /\ Pre(Self) = h.pre

\* C11 amended - idempotence of empty input when nothing is left to scan:
\* AppendBytes of an empty array changes nothing; the ParsePackets call that
\* follows it leaves the buffer and the five cumulative counters as they were
\* when the buffer is empty or holds only the beginning of an incomplete
\* frame, or MaxPacketsPerCall is not positive; and every scan that returned
\* fewer than MaxPacketsPerCall packets leaves the buffer in such a state.
C11_EmptyInputNothingToScan ==
    /\ (h.op = "AppendBytes" /\ h.arg = << >>) =>
          Buffer = h.preBuf /\ Pre(Self) = h.pre
    /\ (/\ prev.op = "AppendBytes" /\ prev.empty /\ h.op = "ParsePackets"
        /\ (Quiescent(h.preBuf) \/ MaxPacketsPerCall <= 0)) =>
          /\ Buffer = h.preBuf /\ Pre(Self) = h.pre
          /\ Result = 0 /\ OutBytesDropped = 0
    /\ (Parsed /\ Result < MaxPacketsPerCall) => Quiescent(Buffer)

\* an empty append and a parse found a frame lacking its last byte, and kept it
C11_Witness ==
    /\ prev.op = "AppendBytes" /\ prev.empty /\ h.op = "ParsePackets"
    /\ Len(h.preBuf) >= MinFrameSize /\ Quiescent(h.preBuf)
    /\ Buffer = h.preBuf /\ Pre(Self) = h.pre
    /\ TotalBytesIn = Len(Buffer)

\* C12 as stated - repeated parse: the second of two ParsePackets calls in
\* a row returns no packet, reports no dropped byte, bad end frame or CRC
\* mismatch, and leaves the buffer and the five cumulative counters unchanged.
C12_RepeatedParseAnyBuffer ==
    (prev.op = "ParsePackets" /\ h.op = "ParsePackets")
    => /\ Result = 0 /\ OutPackets = << >>
       /\ OutBytesDropped = 0 /\ OutBadEndFrames = 0 /\ OutCrcMismatches = 0
       /\ Buffer = h.preBuf
       /\ Pre(Self) = h.pre

\* C12 amended - repeated parse below the cap: when a ParsePackets or
\* IngestAndParse call returned fewer than MaxPacketsPerCall packets (or
\* MaxPacketsPerCall is not positive), a ParsePackets call right after it
\* returns no packet, reports no dropped byte, bad end frame or CRC mismatch,
\* and leaves the buffer and the five cumulative counters unchanged.
C12_RepeatedParseBelowCap ==
    (/\ prev.op \in {"ParsePackets", "IngestAndParse"}
     /\ (~prev.capped \/ MaxPacketsPerCall <= 0)
     /\ h.op = "ParsePackets")
    => /\ Result = 0 /\ OutPackets = << >>
       /\ OutBytesDropped = 0 /\ OutBadEndFrames = 0 /\ OutCrcMismatches = 0
       /\ Buffer = h.preBuf
       /\ Pre(Self) = h.pre

\* the second parse found the incomplete frame the first one had kept
C12_Witness ==
    /\ prev.op = "ParsePackets" /\ ~prev.capped /\ h.op = "ParsePackets"
    /\ TotalPacketsDecoded >= 1
    /\ h.preBuf # << >> /\ Buffer = h.preBuf
    /\ Result = 0 /\ Pre(Self) = h.pre

\* the iterations of the last call that decoded a frame, in loop order
IsOk(e) == e.kind = "ok"
Oks == SelectSeq(h.events, IsOk)

\* stream position of the first byte of the buffer the last scan started on
\* (the buffer is always the tail of the bytes delivered so far)
ScanBase == Delivered - Len(h.scanned)

\* C13 - stream order: the k-th packet a call returns was decoded from the
\* k-th frame the scan accepted; the frames accepted in one call lie at
\* increasing stream positions with disjoint spans, and the first of them
\* starts at or behind the end of the last frame decoded by any earlier call.
C13_StreamOrder ==
    Parsed =>
      /\ Len(Oks) = Len(OutPackets)
      /\ h.lastEnd >= prev.lastEnd
      /\ \A k \in 1..Len(Oks) :
            LET start == ScanBase + Oks[k].at
            IN /\ start >= 0
               /\ start + FrameSize(Oks[k].len) <= Delivered
               /\ Stream(scn)[start + 1] = StartByte
               /\ OutPackets[k] = DecodePacketAt(Stream(scn), start, Oks[k].len)
               /\ k = 1 => start >= prev.lastEnd
               /\ k > 1 => start >= ScanBase + Oks[k - 1].at + FrameSize(Oks[k - 1].len)
               /\ k = Len(Oks) => h.lastEnd = start + FrameSize(Oks[k].len)

\* a later call skipped a rejected frame and returned the frame behind it,
\* after an earlier call had returned the frames in front of both
C13_Witness ==
    /\ h.op = "ParsePackets" /\ prev.op = "ParsePackets"
    /\ prev.lastEnd >= MinFrameSize
    /\ OutBadEndFrames = 1
    /\ Len(OutPackets) = 1
    /\ h.lastEnd >= prev.lastEnd + 2 * MinFrameSize

\* C14 as stated - junk prefix: k >= 0 junk bytes and one valid frame
\* appended to an empty buffer, then ParsePackets: exactly the packet of the
\* frame is returned, the call reports k bytes dropped, the buffer is empty.
C14_JunkPrefix ==
    (/\ scn.kind = "frame"
     /\ NoStartInside(<<0>> \o scn.segs[1].bytes)
     /\ AppendedThenParsed)
    => /\ Result = 1
       /\ OutPackets = <<PacketOf(scn.segs[2].f)>>
       /\ OutBytesDropped = Len(scn.segs[1].bytes)
       /\ Buffer = << >>

\* the buffer indices one loop iteration read behind the start byte it found:
\* LEN; END; the CRC byte and the bytes the CRC and the decoder go over
Reads(e) ==
    (IF e.kind \in {"len", "frame", "end", "crc", "ok"} THEN {e.at + 6} ELSE {})
    \cup (IF e.kind \in {"end", "crc", "ok"} THEN {e.at + 8 + e.len} ELSE {})
    \cup (IF e.kind \in {"crc", "ok"} THEN (e.at + 1)..(e.at + 7 + e.len) ELSE {})

Byte == 0..255

\* C15 - parse never fails: every index a scan reads (LEN, END, CRC, the XOR
\* range, the payload) lies inside the buffer, the LEN an iteration worked
\* with is the byte at cursor+6, and the call returns the number of packets
\* in OutPackets, each made of bytes of the buffer.
C15_ParseNeverFails ==
    Parsed =>
      /\ \A i \in 1..Len(h.events) :
            /\ h.events[i].at \in 0..(Len(h.scanned) - 1) \/ h.events[i].kind = "none"
            /\ Reads(h.events[i]) \subseteq 0..(Len(h.scanned) - 1)
            /\ h.events[i].kind \in {"len", "frame", "end", "crc", "ok"} =>
                  h.events[i].len = h.scanned[h.events[i].at + 7]
      /\ Result = Len(OutPackets) /\ Result >= 0
      /\ \A n \in 1..Len(OutPackets) :
            /\ {OutPackets[n].Ver, OutPackets[n].Src, OutPackets[n].Type, OutPackets[n].Len}
                 \subseteq Byte
            /\ OutPackets[n].Seq \in 0..65535
            /\ Len(OutPackets[n].Payload) = OutPackets[n].Len
            /\ \A j \in 1..Len(OutPackets[n].Payload) : OutPackets[n].Payload[j] \in Byte

\* a scan stopped at a frame of 32 payload bytes that lacks only its END byte
C15_Witness ==
    /\ Parsed
    /\ Len(h.events) = 1 /\ h.events[1] = Event("frame", 0, MaxPayloadLen)
    /\ Len(h.scanned) = MinFrameSize + MaxPayloadLen - 1
    /\ Result = 0

\* C16 - monotone statistics: a step of AppendBytes, ParsePackets,
\* IngestAndParse or ResetBuffer lowers none of the five cumulative counters;
\* a step of ResetStatistics sets all five to zero.
C16_MonotoneStatistics ==
    [][/\ h'.op \in {"AppendBytes", "ParsePackets", "IngestAndParse", "ResetBuffer"} =>
            /\ TotalBytesIn' >= TotalBytesIn
            /\ TotalPacketsDecoded' >= TotalPacketsDecoded
            /\ TotalBytesDropped' >= TotalBytesDropped
            /\ TotalBadEndFrames' >= TotalBadEndFrames
            /\ TotalCrcMismatches' >= TotalCrcMismatches
       /\ h'.op = "ResetStatistics" =>
            Pre(Self)' = NoCall.pre
       /\ h'.op \in {"AppendBytes", "ParsePackets", "IngestAndParse", "ResetBuffer",
                     "ResetStatistics"}]_vars

\* counters that had already grown before a ResetBuffer grew again after it
C16_Witness ==
    /\ prev.op = "ResetBuffer" /\ h.op = "IngestAndParse"
    /\ h.pre.TotalBytesIn > 0
    /\ TotalBytesIn > h.pre.TotalBytesIn
    /\ TotalPacketsDecoded > h.pre.TotalPacketsDecoded

\* C17 - independent resets: ResetBuffer empties the buffer and leaves the
\* five cumulative counters as they were; ResetStatistics sets the five
\* counters to zero and leaves the buffer as it was.
C17_IndependentResets ==
    /\ h.op = "ResetBuffer" =>
          /\ Buffer = << >> /\ GetBufferedByteCount = 0
          /\ Pre(Self) = h.pre
    /\ h.op = "ResetStatistics" =>
          /\ Pre(Self) = NoCall.pre
          /\ Buffer = h.preBuf

\* ResetStatistics zeroed counters that were not zero and kept a buffered
\* partial frame
C17_Witness ==
    /\ h.op = "ResetStatistics"
    /\ h.preBuf # << >> /\ Buffer = h.preBuf
    /\ h.pre.TotalBytesIn > 0 /\ h.pre.TotalBadEndFrames > 0
    /\ TotalBytesIn = 0 /\ TotalBadEndFrames = 0

\* C18 as stated - IngestAndParse drop count: the OutBytesDropped of an
\* IngestAndParse call is the number of bytes the call discarded, that is the
\* increase of TotalBytesDropped over the call, bytes evicted by the buffer
\* limit on append included.
C18_IngestDropCount ==
    h.op = "IngestAndParse" =>
      /\ OutBytesDropped = TotalBytesDropped - h.pre.TotalBytesDropped
      /\ OutBytesDropped >= h.evicted

\* the packet that the frame at offset F of B encodes
PacketAt(B, F) ==
    [Ver |-> B[F + 2], Src |-> B[F + 3], Type |-> B[F + 4],
     Seq |-> B[F + 5] + 256 * B[F + 6],
     Len |-> B[F + 7],
     Payload |-> SubSeq(B, F + 8, F + 7 + B[F + 7])]

\* C19 - soundness of decoding: the k-th packet a call returns is the decode
\* of a run of 9+LEN buffered bytes that starts with 0xAA, has LEN <= 32 at
\* offset 6, 0x55 at offset 8+LEN and at offset 7+LEN the XOR of the bytes at
\* offsets 1..6+LEN; the call counts exactly these packets as decoded.
C19_SoundDecoding ==
    Parsed =>
      /\ Len(OutPackets) = Len(Oks)
      /\ TotalPacketsDecoded = h.pre.TotalPacketsDecoded + Len(OutPackets)
      /\ \A k \in 1..Len(Oks) :
            /\ ValidFrameAt(h.scanned, Oks[k].at)
            /\ Oks[k].len = h.scanned[Oks[k].at + 7]
            /\ k <= Len(OutPackets) => OutPackets[k] = PacketAt(h.scanned, Oks[k].at)

\* a call rejected a frame with a wrong CRC byte and decoded the frame behind it
C19_Witness ==
    /\ Parsed
    /\ OutCrcMismatches = 1 /\ OutBadEndFrames = 0
    /\ Len(OutPackets) = 1
    /\ ValidFrameAt(h.scanned, MinFrameSize + MaxPayloadLen)
    /\ OutPackets[1] = PacketAt(h.scanned, MinFrameSize + MaxPayloadLen)

\* number of iterations of the last call of the given kinds
CountOf(kinds) == Cardinality({i \in 1..Len(h.events) : h.events[i].kind \in kinds})

\* the END byte and the CRC byte of the candidate of iteration e are right
EndOk(e) == h.scanned[e.at + 9 + e.len] = EndByte
CrcOk(e) == h.scanned[e.at + 8 + e.len]
              = XorAll(SubSeq(h.scanned, e.at + 2, e.at + 7 + e.len))

RECURSIVE SumFrameSizes(_)
SumFrameSizes(es) ==
    IF es = << >> THEN 0 ELSE FrameSize(Head(es).len) + SumFrameSizes(Tail(es))

\* bytes dropped by the iterations es of a scan whose cursor stands at c: the
\* junk in front of each start byte found, one byte for each rejection, and
\* what is left of the buffer when no start byte is found
RECURSIVE DroppedBy(_, _)
DroppedBy(es, c) ==
    IF es = << >> THEN 0
    ELSE LET e == Head(es)
         IN IF e.kind = "none" THEN Len(h.scanned) - c
            ELSE IF e.kind \in Rejections
                 THEN (e.at - c) + 1 + DroppedBy(Tail(es), e.at + 1)
            ELSE IF e.kind = "ok"
                 THEN (e.at - c) + DroppedBy(Tail(es), e.at + FrameSize(e.len))
            ELSE e.at - c

\* C20 - end marker before CRC: every complete candidate (LEN <= 32, 9+LEN
\* bytes buffered) with a wrong END byte is rejected as a bad end frame,
\* whatever its CRC byte; it is rejected as a CRC mismatch exactly when its END
\* byte is right and its CRC byte wrong.  The call and the cumulative
\* counters count one bad end frame per bad-END rejection and one CRC
\* mismatch per CRC rejection, and every byte the scan consumed outside a
\* decoded frame, one per rejection, as dropped.
C20_EndBeforeCrc ==
    Parsed =>
      /\ \A i \in 1..Len(h.events) :
            LET e == h.events[i]
            IN e.kind \in {"end", "crc", "ok"} =>
                 /\ e.len <= MaxPayloadLen
                 /\ e.at + FrameSize(e.len) <= Len(h.scanned)
                 /\ e.kind = "end" <=> ~EndOk(e)
                 /\ e.kind = "crc" <=> (EndOk(e) /\ ~CrcOk(e))
      /\ OutBadEndFrames = CountOf({"end"})
      /\ OutCrcMismatches = CountOf({"crc"})
      /\ TotalBadEndFrames = h.pre.TotalBadEndFrames + CountOf({"end"})
      /\ TotalCrcMismatches = h.pre.TotalCrcMismatches + CountOf({"crc"})
      /\ OutBytesDropped = DroppedBy(h.events, 0)
      /\ OutBytesDropped = (Len(h.scanned) - Len(Buffer)) - SumFrameSizes(Oks)
      /\ TotalBytesDropped = h.pre.TotalBytesDropped + h.evicted + OutBytesDropped

\* a frame with both a wrong END byte and a wrong CRC byte was counted as a
\* bad end frame only
C20_Witness ==
    /\ Parsed
    /\ \E i \in 1..Len(h.events) :
          /\ h.events[i].kind = "end"
          /\ h.events[i].len = MaxPayloadLen
          /\ ~CrcOk(h.events[i])
    /\ OutBadEndFrames = 1 /\ OutCrcMismatches = 0
    /\ TotalCrcMismatches = 0
    /\ OutBytesDropped = FrameSize(MaxPayloadLen)
    /\ Result = 1

-----------------------------------------------------------------------------
(* Claims C21..C30                                                          *)

\* the iteration the scan loop has just run
LastEvent == h.events[Len(h.events)]

\* C21 - oversized LEN is noise, not truncation: a loop iteration whose
\* candidate has at least 7 bytes buffered rejects it for its length exactly
\* when its LEN byte is greater than 32; that iteration drops one byte for the
\* candidate (besides the junk in front of it), increments neither the bad-END
\* nor the CRC counters, decodes nothing, does not leave the loop, and puts
\* the cursor on the very next byte, so that a start marker there is the next
\* candidate.
C21_OversizedLength ==
    [][(pc = "loop" /\ Len(h'.events) = Len(h.events) + 1
          /\ LastEvent'.kind \notin {"none", "hdr"})
       => LET e == LastEvent'
          IN /\ e.at + MinBytesToReadHeader <= Len(Buffer)
             /\ (e.kind = "len") <=> (Buffer[e.at + 7] > MaxPayloadLen)
             /\ (e.kind = "len") =>
                  /\ e.len = Buffer[e.at + 7]
                  /\ OutBytesDropped' = OutBytesDropped + (e.at - ReadIndex) + 1
                  /\ TotalBytesDropped' = TotalBytesDropped + (e.at - ReadIndex) + 1
                  /\ OutBadEndFrames' = OutBadEndFrames
                  /\ OutCrcMismatches' = OutCrcMismatches
                  /\ TotalBadEndFrames' = TotalBadEndFrames
                  /\ TotalCrcMismatches' = TotalCrcMismatches
                  /\ OutPackets' = OutPackets /\ PacketsParsed' = PacketsParsed
                  /\ Buffer' = Buffer
                  /\ pc' = "loop"
                  /\ ReadIndex' = e.at + 1]_vars

\* the loop has just rejected a candidate for its length, with 0xAA as the next
\* byte, and the iteration before it rejected the candidate one byte earlier
\* for its length too
C21_Witness ==
    /\ pc = "loop" /\ Len(h.events) >= 2
    /\ LastEvent.kind = "len" /\ ReadIndex = LastEvent.at + 1
    /\ h.events[Len(h.events) - 1].kind = "len"
    /\ h.events[Len(h.events) - 1].at = LastEvent.at - 1
    /\ ReadIndex < Len(Buffer) /\ Buffer[ReadIndex + 1] = StartByte
    /\ OutBytesDropped >= 2 /\ OutBadEndFrames = 0 /\ OutCrcMismatches = 0

\* C22 - waiting keeps the partial frame: the scan stops to wait exactly at a
\* start marker with fewer than 7 bytes buffered from it, or with LEN <= 32
\* and fewer than 9+LEN bytes buffered from it; such an iteration is the last
\* of its call, every byte in front of the marker was dropped or belongs to a
\* decoded frame and no byte from the marker on was, the bad-END and CRC
\* counters count the rejected candidates only, and after the call the buffer
\* is exactly the scanned buffer from that marker to its end.
C22_WaitKeepsPartial ==
    Parsed =>
      /\ \A i \in 1..Len(h.events) :
            LET e == h.events[i]
                Left == Len(h.scanned) - e.at
            IN /\ (e.kind = "hdr") => (Left < MinBytesToReadHeader)
               /\ (e.kind = "frame") =>
                    /\ Left >= MinBytesToReadHeader
                    /\ h.scanned[e.at + 7] <= MaxPayloadLen
                    /\ e.len = h.scanned[e.at + 7]
                    /\ Left < MinFrameSize + e.len
               /\ (e.kind \in {"len", "end", "crc", "ok"}) =>
                    /\ Left >= MinBytesToReadHeader
                    /\ (h.scanned[e.at + 7] <= MaxPayloadLen
                          => Left >= MinFrameSize + h.scanned[e.at + 7])
               /\ (e.kind \in {"hdr", "frame"}) =>
                    /\ i = Len(h.events)
                    /\ h.scanned[e.at + 1] = StartByte
                    /\ Left >= 1
                    /\ Buffer = SubSeq(h.scanned, e.at + 1, Len(h.scanned))
                    /\ OutBytesDropped + SumFrameSizes(Oks) = e.at
                    /\ TotalBytesDropped = h.pre.TotalBytesDropped + h.evicted + OutBytesDropped
                    /\ OutBadEndFrames = CountOf({"end"})
                    /\ OutCrcMismatches = CountOf({"crc"})
                    /\ TotalBadEndFrames = h.pre.TotalBadEndFrames + OutBadEndFrames
                    /\ TotalCrcMismatches = h.pre.TotalCrcMismatches + OutCrcMismatches
                    /\ Result = Len(Oks)

\* a call dropped the junk in front of a start marker and kept the 9 or more
\* bytes buffered from it, which are not yet the whole frame
C22_Witness ==
    /\ Parsed /\ h.events # << >>
    /\ LastEvent.kind = "frame" /\ LastEvent.at >= 1
    /\ OutBytesDropped = LastEvent.at
    /\ Len(Buffer) >= MinFrameSize
    /\ Buffer = SubSeq(h.scanned, LastEvent.at + 1, Len(h.scanned))

\* C23 - eviction rule: a non-empty AppendBytes (alone or as the first half of
\* IngestAndParse) that brings the buffer above MaxBufferBytes leaves the last
\* TrimToBytes bytes of old buffer + input if 0 < TrimToBytes < their number
\* and nothing otherwise, and adds the number of bytes removed to
\* TotalBytesDropped; at or below MaxBufferBytes the buffer is old buffer +
\* input and TotalBytesDropped is unchanged.
C23_EvictionRule ==
    (h.op \in {"AppendBytes", "IngestAndParse"} /\ h.arg # << >>) =>
      LET All == h.preBuf \o h.arg
          Kept == IF h.op = "AppendBytes" THEN Buffer ELSE h.scanned
          Removed == Len(All) - Len(Kept)
          Scan == IF h.op = "AppendBytes" THEN 0 ELSE OutBytesDropped
      IN /\ TotalBytesIn = h.pre.TotalBytesIn + Len(h.arg)
         /\ TotalBytesDropped = h.pre.TotalBytesDropped + Removed + Scan
         /\ h.evicted = Removed
         /\ IF Len(All) > MaxBufferBytes
            THEN IF 0 < TrimToBytes /\ TrimToBytes < Len(All)
                 THEN /\ Len(Kept) = TrimToBytes
                      /\ \A i \in 1..TrimToBytes :
                            Kept[i] = All[Len(All) - TrimToBytes + i]
                 ELSE Kept = << >>
            ELSE Kept = All

\* an AppendBytes brought more than MaxBufferBytes bytes, but no more than
\* TrimToBytes, and emptied the buffer
C23_Witness ==
    /\ h.op = "AppendBytes" /\ h.arg # << >>
    /\ Len(h.preBuf \o h.arg) > MaxBufferBytes
    /\ TrimToBytes >= Len(h.preBuf \o h.arg)
    /\ Buffer = << >>
    /\ TotalBytesDropped = h.pre.TotalBytesDropped + Len(h.preBuf \o h.arg)

\* C24 - field decoding: the k-th packet of a call, decoded from the frame at
\* offset F of the scanned buffer, has Seq = SEQ_LO + 256 * SEQ_HI (low byte at
\* F+4, high byte at F+5, so Seq is in 0..65535), Ver, Src and Type equal to
\* the bytes at F+1, F+2 and F+3, Len equal to the LEN byte at F+6, and a
\* payload of exactly Len bytes equal to the bytes at F+7 .. F+6+LEN in order.
C24_FieldDecoding ==
    Parsed =>
      /\ Len(Oks) = Len(OutPackets)
      /\ \A k \in 1..Len(OutPackets) :
            LET p == OutPackets[k]
                F == Oks[k].at
                Frame == SubSeq(h.scanned, F + 1, F + FrameSize(Oks[k].len))
            IN /\ Len(Frame) = MinFrameSize + Frame[7]
               /\ p.Seq \in 0..65535
               /\ p.Seq % 256 = Frame[5]
               /\ p.Seq \div 256 = Frame[6]
               /\ p.Ver = Frame[2] /\ p.Src = Frame[3] /\ p.Type = Frame[4]
               /\ p.Len = Frame[7]
               /\ p.Len \in 0..MaxPayloadLen
               /\ Len(p.Payload) = p.Len
               /\ \A j \in 1..p.Len : p.Payload[j] = Frame[7 + j]
               /\ (Frame[7] = 0) => (p.Payload = << >>)

\* a call returned a packet with Seq = 0x1234 from the frame bytes 0x34, 0x12
\* and a payload of two different bytes
C24_Witness ==
    /\ Parsed /\ Len(OutPackets) = 1 /\ Len(Oks) = 1
    /\ h.scanned[Oks[1].at + 5] = 52 /\ h.scanned[Oks[1].at + 6] = 18
    /\ OutPackets[1].Seq = 4660
    /\ OutPackets[1].Len = 2
    /\ OutPackets[1].Payload = <<170, 85>>

\* the bytes CreateTestByteStream() returns were handed to a fresh parser with
\* the default configuration in a single IngestAndParse
TestStreamIngested ==
    /\ scn = TestStream /\ config = DefaultConfig
    /\ h.op = "IngestAndParse" /\ prev.op = "new"
    /\ h.arg = Stream(TestStream)

PacketBytes(ps) ==
    LET Sum[i \in 0..Len(ps)] ==
          IF i = 0 THEN 0 ELSE Sum[i - 1] + MinFrameSize + ps[i].Len
    IN Sum[Len(ps)]

\* C26 - byte conservation: in every state reached by AppendBytes,
\* ParsePackets and IngestAndParse calls, TotalBytesIn (all bytes delivered so
\* far) = TotalBytesDropped + the sum of 9 + Len over all packets returned so
\* far + the buffered byte count; the frames decoded so far are exactly the
\* packets returned so far.
C26_ByteConservation ==
    /\ TotalBytesIn = Delivered
    /\ TotalPacketsDecoded = Len(h.got)
    /\ h.framed = PacketBytes(h.got)
    /\ TotalBytesIn = TotalBytesDropped + PacketBytes(h.got) + GetBufferedByteCount

\* after two calls that each dropped bytes and returned a packet, bytes were
\* dropped, decoded and are still buffered
C26_Witness ==
    /\ h.op = "ParsePackets" /\ prev.op = "ParsePackets"
    /\ OutBytesDropped > 0 /\ h.pre.TotalBytesDropped > 0
    /\ TotalBytesDropped = h.pre.TotalBytesDropped + OutBytesDropped
    /\ Len(h.got) >= 2 /\ Len(OutPackets) = 1
    /\ GetBufferedByteCount > 0
    /\ TotalBytesIn = TotalBytesDropped + PacketBytes(h.got) + GetBufferedByteCount

\* C27 - shape of the residual buffer: after a ParsePackets call (alone or as
\* the second half of IngestAndParse) that returned fewer than
\* MaxPacketsPerCall packets, the buffer is empty or starts with 0xAA and
\* holds one incomplete candidate only (fewer than 7 bytes, or LEN <= 32 and
\* fewer than 9+LEN bytes), hence at most 40 bytes; a buffer that starts with
\* a complete candidate (41 bytes from a start marker always are one, or an
\* oversized LEN) is never left behind.
C27_ResidualShape ==
    (Parsed /\ MaxPacketsPerCall >= 1 /\ Result < MaxPacketsPerCall) =>
      /\ Quiescent(Buffer)
      /\ Len(Buffer) <= MinFrameSize + MaxPayloadLen - 1
      /\ Len(Buffer) <= 40
      /\ (Buffer # << >>) =>
            /\ h.events # << >> /\ LastEvent.kind \in {"hdr", "frame"}
            /\ Buffer = SubSeq(h.scanned, LastEvent.at + 1, Len(h.scanned))
      /\ (Buffer = << >>) =>
            \/ h.events = << >>
            \/ LastEvent.kind = "none"

\* a call left 40 bytes behind: a start marker, LEN = 32 and all of the frame
\* but its last byte
C27_Witness ==
    /\ Parsed /\ Result < MaxPacketsPerCall
    /\ Len(Buffer) = 40
    /\ Buffer[1] = StartByte /\ Buffer[7] = MaxPayloadLen

\* the parser after a single IngestAndParse of bytes on a fresh parser
WholeIngest(bytes) == IngestAndParseF(NoSelf, bytes)

\* C28 - chunking invariance: as long as every call so far was IngestAndParse,
\* no eviction occurred and no call reached MaxPacketsPerCall, the packets
\* returned so far (in call order), the five cumulative counters and the
\* buffer are those of a single IngestAndParse of all bytes delivered so far
\* on a fresh parser.
C28_ChunkingInvariance ==
    (/\ h.ingestOnly /\ h.op = "IngestAndParse"
     /\ TotalBytesIn <= MaxBufferBytes
     /\ TotalPacketsDecoded < MaxPacketsPerCall)
    => LET W == WholeIngest(Take(Stream(scn), Delivered))
       IN /\ h.got = W.OutPackets
          /\ Pre(Self) = Pre(W)
          /\ Buffer = W.Buffer

\* the last of three or more chunks has arrived: an earlier call counted the
\* frame with the wrong END byte, this one returned the packet of the valid
\* frame behind it
C28_Witness ==
    /\ h.ingestOnly /\ h.op = "IngestAndParse" /\ prev.op = "IngestAndParse"
    /\ feed = << >>
    /\ h.arg # << >> /\ ~prev.empty
    /\ Len(h.preBuf) + Len(h.arg) < Len(Stream(scn))
    /\ h.pre.TotalBadEndFrames >= 1
    /\ h.preBuf # << >>
    /\ Result = 1 /\ h.got = OutPackets
    /\ h.got = WholeIngest(Stream(scn)).OutPackets
    /\ TotalBadEndFrames = WholeIngest(Stream(scn)).TotalBadEndFrames
    /\ Buffer = << >>

\* C29 - backlog drains: once all bytes are buffered and MaxPacketsPerCall
\* >= 1, the ParsePackets calls that follow reach a call that returns fewer
\* than MaxPacketsPerCall packets; and every ParsePackets call made right
\* after a call that returned fewer than MaxPacketsPerCall packets returns
\* zero packets and leaves the buffer and the five cumulative counters as
\* they were.
C29_BacklogDrains ==
    /\ (feed = << >> /\ MaxPacketsPerCall >= 1)
         ~> (/\ pc = "idle" /\ feed = << >>
             /\ h.op = "ParsePackets" /\ Result < MaxPacketsPerCall)
    /\ [](/\ pc = "idle" /\ MaxPacketsPerCall >= 1
           /\ h.op = "ParsePackets"
           /\ prev.op \in {"ParsePackets", "IngestAndParse"} /\ ~prev.capped
          => /\ Result = 0 /\ OutPackets = << >>
             /\ Buffer = h.preBuf
             /\ Pre(Self) = h.pre)

\* the third ParsePackets call in a row found nothing left after two calls
\* that each returned MaxPacketsPerCall packets
C29_Witness ==
    /\ pc = "idle" /\ h.op = "ParsePackets" /\ prev.op = "ParsePackets" /\ prev.capped
    /\ MaxPacketsPerCall >= 1
    /\ Result = 0 /\ Len(h.got) = 2 * MaxPacketsPerCall
    /\ h.pre.TotalPacketsDecoded = Len(h.got)

\* C30 - per-call outputs match the cumulative counters: for every
\* ParsePackets call the return value is the number of packets in OutPackets,
\* at most MaxPacketsPerCall and zero when MaxPacketsPerCall <= 0, and the
\* return value, OutBytesDropped, OutBadEndFrames and OutCrcMismatches are the
\* increases of TotalPacketsDecoded, TotalBytesDropped, TotalBadEndFrames and
\* TotalCrcMismatches during the call, whatever the call before it returned;
\* TotalBytesIn is unchanged.
C30_OutputsMatchCounters ==
    (h.op = "ParsePackets") =>
      /\ Result = Len(OutPackets)
      /\ Result >= 0 /\ Result <= Max2(MaxPacketsPerCall, 0)
      /\ (MaxPacketsPerCall <= 0) => (Result = 0)
      /\ OutBytesDropped >= 0 /\ OutBadEndFrames >= 0 /\ OutCrcMismatches >= 0
      /\ TotalPacketsDecoded = h.pre.TotalPacketsDecoded + Result
      /\ TotalBytesDropped = h.pre.TotalBytesDropped + OutBytesDropped
      /\ TotalBadEndFrames = h.pre.TotalBadEndFrames + OutBadEndFrames
      /\ TotalCrcMismatches = h.pre.TotalCrcMismatches + OutCrcMismatches
      /\ TotalBytesIn = h.pre.TotalBytesIn

\* the third ParsePackets call in a row: the first dropped junk, this one
\* dropped the bytes of a frame with a wrong END byte and returned one packet
C30_Witness ==
    /\ h.op = "ParsePackets" /\ prev.op = "ParsePackets"
    /\ h.pre.TotalPacketsDecoded = 2 /\ h.pre.TotalBytesDropped = 3
    /\ h.pre.TotalBadEndFrames = 0
    /\ Result = 1 /\ MaxPacketsPerCall = 1
    /\ OutBadEndFrames = 1 /\ OutBytesDropped = MinFrameSize
    /\ TotalBytesDropped = 3 + MinFrameSize

=============================================================================
